---------------------------- MODULE Spec2Model ----------------------------
(***************************************************************************)
(* A model of dolomite-engine's configuration layer:                       *)
(*   - engine/arguments.py: the pydantic argument classes, their           *)
(*     model_post_init checks, get_args, BaseArgs.to_dict, log_args;       *)
(*   - dolomite_engine/distributed/deepspeed.py: get_deepspeed_config and  *)
(*     its process-wide cache _DEEPSPEED_CONFIG.                           *)
(*                                                                         *)
(* Python's None is the empty tuple and a value v that is present is the   *)
(* one-element tuple <<v>>, so that an Optional field of any type can be   *)
(* compared with None.  A raw (json / yaml) section is a record of such    *)
(* options: <<>> is a key the file does not carry.                         *)
(***************************************************************************)
EXTENDS Integers, Sequences, FiniteSets, TLC

VARIABLES
    pc,          \* args specification: "call" before the operation runs, "done" after
    op,          \* args specification: the operation called
    mode,        \* args specification: the Mode get_args was called with
    raw,         \* args specification: the raw config handed to the operation
    outcome,     \* args specification: "" on success, else the first error raised
    node,        \* args specification: None or <<the constructed node>>
    dsCache,     \* deepspeed: the module global _DEEPSPEED_CONFIG
    dsTable,     \* deepspeed: the module global _DEEPSPEED_MIXED_PRECISION_CONFIG
    dsCall,      \* deepspeed (sequential): the last call, its args and what it returned
    dsHist,      \* deepspeed: ghost record of the derivations performed and published
    th,          \* deepspeed (threads): each thread's position, args, local config, result
    argsFileExtension,  \* the module global _ARGS_FILE_EXTENSION
    tdIn,        \* to_dict: the node to_dict is called on
    tdOut,       \* to_dict: None, or <<node after the call, returned mapping>>
    log,         \* the process log: the messages log_rank_0 has written, in order
    laIn,        \* log_args: the mapping and prefix _iterate_args_recursively is called with
    laOut        \* log_args: None, or <<the list the call returned>>

argsVars == <<pc, op, mode, raw, outcome, node, argsFileExtension, log>>
dsVars == <<dsCache, dsTable, dsCall, dsHist, th>>
tdVars == <<tdIn, tdOut>>
laVars == <<laIn, laOut>>
vars == <<pc, op, mode, raw, outcome, node, dsCache, dsTable, dsCall, dsHist, th,
          argsFileExtension, tdIn, tdOut, log, laIn, laOut>>

None == <<>>
Some(v) == <<v>>
Val(o) == o[1]

NoError == ""

\* ------------------------------------------------------------------ bounds

\* longest datasets list a raw config carries
MaxDatasets == 2

\* ------------------------------------------------------------ enumerations

TuningMethods == {"full_finetuning", "prompt_tuning", "lora"}
PromptTuningInits == {"RANDOM", "TEXT"}
Modes == {"training", "inference", "export"}

\* pydantic coerces a raw string into the field's Enum; a string that is no
\* member's value is a validation error of that field
EnumError(field, rawValue, members) ==
    IF rawValue # None /\ Val(rawValue) \notin members
    THEN "ValidationError: " \o field
    ELSE NoError

\* the first error of a sequence of errors, NoError when there is none
FirstError(errs) ==
    LET bad == {i \in 1..Len(errs) : errs[i] # NoError}
    IN IF bad = {} THEN NoError
       ELSE errs[CHOOSE i \in bad : \A j \in bad : i <= j]

\* ------------------------------------------------------------ _check_not_None

\* pairs is a sequence of <<object, name>>; the assert of the first None
\* object fails
CheckNotNone(pairs) ==
    FirstError([i \in 1..Len(pairs) |->
        IF pairs[i][1] = None THEN pairs[i][2] \o " cannot be None" ELSE NoError])

\* a construction's result: the first error, and the node when there is none
Built(err, n) == [err |-> err, node |-> IF err = NoError THEN Some(n) ELSE None]

\* ------------------------------------------------------------ PromptTuningArgs

PromptTuningArgsPostInit(self) ==
    FirstError(<<
        CheckNotNone(<< <<self.prompt_tuning_init, "prompt_tuning_init">> >>),
        IF self.prompt_tuning_init = Some("RANDOM")
        THEN IF self.prompt_tuning_init_text = None THEN NoError
             ELSE "prompt_tuning_init_text was specified with RANDOM init method"
        ELSE IF self.prompt_tuning_init = Some("TEXT")
        THEN IF self.prompt_tuning_init_text # None THEN NoError
             ELSE "prompt_tuning_init_text needs to be specified with TEXT init method"
        ELSE NoError >>)

PromptTuningArgs(r) ==
    LET self == [prompt_tuning_init |-> r.prompt_tuning_init,
                 prompt_tuning_init_text |-> r.prompt_tuning_init_text,
                 num_virtual_tokens |-> r.num_virtual_tokens]
    IN Built(FirstError(<<EnumError("prompt_tuning_init", r.prompt_tuning_init, PromptTuningInits),
                          PromptTuningArgsPostInit(self)>>), self)

\* ------------------------------------------------------------ LoRAArgs

LoRAArgsPostInit(self) == CheckNotNone(<< <<self.lora_rank, "lora_rank">> >>)

LoRAArgs(r) ==
    LET self == [lora_rank |-> r.lora_rank, lora_alpha |-> "32.0", lora_dropout |-> "0.1"]
    IN Built(LoRAArgsPostInit(self), self)

\* ------------------------------------------------------------ nested sections

\* A field typed as a nested model: an absent key leaves the default None, a
\* supplied mapping is constructed (its own validation and model_post_init
\* run) before the parent's model_post_init.
Absent == [err |-> NoError, node |-> None]

\* ------------------------------------------------------------ TuningArgs

TuningArgsPostInitFullFinetuningOnly(self) ==
    FirstError(<<
        CheckNotNone(<< <<self.tuning_method, "tuning_method">> >>),
        IF self.tuning_method = Some("full_finetuning")
        THEN FirstError(<<
                IF self.prompt_tuning_args = None THEN NoError
                ELSE "prompt_tuning_args should not be specified with full_finetuning",
                IF self.lora_args = None THEN NoError
                ELSE "lora_args should not be specified with full_finetuning" >>)
        ELSE NoError >>)

TuningArgsPostInit(self) ==
    FirstError(<<
        CheckNotNone(<< <<self.tuning_method, "tuning_method">> >>),
        IF self.tuning_method = Some("full_finetuning")
        THEN FirstError(<<
                IF self.prompt_tuning_args = None THEN NoError
                ELSE "prompt_tuning_args should not be specified with full_finetuning",
                IF self.lora_args = None THEN NoError
                ELSE "lora_args should not be specified with full_finetuning" >>)
        ELSE IF self.tuning_method = Some("prompt_tuning")
        THEN IF self.lora_args = None THEN NoError
             ELSE "lora_args should not be specified with promt_tuning"
        ELSE IF self.tuning_method = Some("lora")
        THEN IF self.prompt_tuning_args = None THEN NoError
             ELSE "prompt_tuning_args should not be specified with lora"
        ELSE NoError >>)

TuningArgs(r) ==
    LET pt == IF r.prompt_tuning_args = None THEN Absent ELSE PromptTuningArgs(Val(r.prompt_tuning_args))
        lo == IF r.lora_args = None THEN Absent ELSE LoRAArgs(Val(r.lora_args))
        self == [tuning_method |-> r.tuning_method,
                 prompt_tuning_args |-> pt.node,
                 lora_args |-> lo.node]
    IN Built(FirstError(<<EnumError("tuning_method", r.tuning_method, TuningMethods),
                          pt.err, lo.err, TuningArgsPostInit(self)>>), self)

\* ------------------------------------------------------------ TrainingParameters

\* eval_during_training: bool = True
EvalDuringTrainingDefault == TRUE

\* a variant that checks eval_interval only when the flag was set explicitly
\* elsewhere: it never requires eval_interval
TrainingParametersPostInitNoEvalRule(self) ==
    CheckNotNone(<< <<self.num_training_steps, "num_training_steps">>,
                    <<self.batch_size_per_gpu, "batch_size_per_gpu">> >>)

TrainingParametersPostInit(self) ==
    FirstError(<<
        CheckNotNone(<< <<self.num_training_steps, "num_training_steps">>,
                        <<self.batch_size_per_gpu, "batch_size_per_gpu">> >>),
        IF self.eval_during_training
        THEN CheckNotNone(<< <<self.eval_interval, "eval_interval">> >>)
        ELSE NoError >>)

TrainingParameters(r) ==
    LET self == [ignore_sampling_proportion_for_validation |-> FALSE,
                 num_training_steps |-> r.num_training_steps,
                 gradient_accumulation_steps |-> 1,
                 eval_interval |-> r.eval_interval,
                 batch_size_per_gpu |-> r.batch_size_per_gpu,
                 eval_during_training |->
                     IF r.eval_during_training = None THEN EvalDuringTrainingDefault
                     ELSE Val(r.eval_during_training)]
    IN Built(TrainingParametersPostInit(self), self)

\* ------------------------------------------------------------ ModelArgs

\* the transformers classes the generic lookup accepts (lines 81-84)
AutoModelClasses == {"AutoModelForCausalLM", "AutoModelForSeq2SeqLM"}
\* names that are attributes of the torch module, among those the raw configs use
TorchAttributes == {"float32", "float16", "bfloat16", "int8"}
\* the dtype whitelist of line 101
AllowedDtypes == {"float32", "float16", "bfloat16"}
ModelDtypeDefault == "float32"

\* self is the node after field validation; ibm tells whether ibm_models imports.
\* The result is the first error and the node as the method leaves it:
\* model_class replaced by the class object (named by its __name__), dtype by
\* the torch.dtype object (named by the attribute).
ModelArgsPostInit(self, ibm) ==
    LET e1 == CheckNotNone(<< <<self.model_name, "model_name">>,
                              <<self.model_class, "model_class">> >>)
        e2 == IF self.attention_implementation = None
              THEN IF Val(self.model_class) \in AutoModelClasses THEN NoError
                   ELSE "attention implementation is not supported with AutoModelForCausalLM or AutoModelForSeq2SeqLM"
              ELSE IF ibm THEN NoError ELSE "ImportError: please pip install ibm-models"
        cls == IF self.attention_implementation = None THEN self.model_class
               ELSE Some("GPTMegatronForCausalLM")
        e3 == IF self.dtype \notin TorchAttributes THEN "AttributeError: torch." \o self.dtype
              ELSE IF self.dtype \notin AllowedDtypes THEN "unexpected dtype"
              ELSE NoError
    IN [err |-> IF e1 # NoError THEN e1 ELSE FirstError(<<e2, e3>>),
        self |-> [self EXCEPT !.model_class = cls]]

ModelArgs(r, ibm) ==
    LET self == [model_name |-> r.model_name,
                 model_class |-> r.model_class,
                 dtype |-> IF r.dtype = None THEN ModelDtypeDefault ELSE Val(r.dtype),
                 trust_remote_code |-> FALSE,
                 attention_implementation |-> r.attention_implementation]
        post == ModelArgsPostInit(self, ibm)
    IN Built(post.err, post.self)

\* ------------------------------------------------------------ SaveArgs, LoadArgs

SaveArgsPostInit(self) ==
    CheckNotNone(<< <<self.save_path, "save_path">>, <<self.save_interval, "save_interval">> >>)

SaveArgs(r) ==
    LET self == [save_path |-> r.save_path, save_interval |-> r.save_interval]
    IN Built(SaveArgsPostInit(self), self)

LoadArgsPostInit(self) ==
    CheckNotNone(<< <<self.load_path, "load_path">>, <<self.iteration, "iteration">> >>)

LoadArgs(r) ==
    LET self == [load_path |-> r.load_path, iteration |-> r.iteration]
    IN Built(LoadArgsPostInit(self), self)

\* ------------------------------------------------------------ GenerationParameters

GenerationParametersPostInit(self) ==
    CheckNotNone(<< <<self.batch_size, "batch_size">>, <<self.max_new_tokens, "max_new_tokens">> >>)

GenerationParameters(r) ==
    LET self == [batch_size |-> r.batch_size, do_sample |-> None,
                 max_new_tokens |-> r.max_new_tokens,
                 temperature |-> None, top_k |-> None, top_p |-> None]
    IN Built(GenerationParametersPostInit(self), self)

\* ------------------------------------------------------------ DatasetArgs

DatasetArgsPostInit(self) ==
    LET e1 == CheckNotNone(<< <<self.class_name, "dataset class_name">>,
                              <<self.data_sampling_ratio, "data_sampling_ratio">>,
                              <<self.data_name, "data_name">> >>)
    IN IF e1 # NoError THEN e1
       ELSE IF Val(self.data_sampling_ratio) > 0 THEN NoError
       ELSE "data_sampling_ratio should be a positive integer"

DatasetArgs(r) ==
    LET self == [class_name |-> r.class_name,
                 data_name |-> r.data_name,
                 input_format |-> "__input__",
                 output_format |-> "__output__",
                 data_sampling_ratio |-> r.data_sampling_ratio,
                 max_input_tokens |-> None,
                 max_output_tokens |-> None]
    IN Built(DatasetArgsPostInit(self), self)

\* datasets: List[DatasetArgs] = []: every entry of the raw list is constructed,
\* in order; an absent key leaves the empty list
DatasetList(rawList) ==
    LET built == [i \in 1..Len(rawList) |-> DatasetArgs(rawList[i])]
        err == FirstError([i \in 1..Len(rawList) |-> built[i].err])
    IN [err |-> err,
        node |-> IF err = NoError THEN [i \in 1..Len(rawList) |-> Val(built[i].node)] ELSE <<>>]

\* ------------------------------------------------------------ _check_datasets

DataNames(datasets) == {datasets[i].data_name : i \in 1..Len(datasets)}

CheckDatasetsNoUniqueness(datasets) ==
    IF Len(datasets) = 0 THEN "datasets cannot be an empty list" ELSE NoError

CheckDatasets(datasets) ==
    IF Len(datasets) = 0 THEN "datasets cannot be an empty list"
    ELSE IF Len(datasets) # Cardinality(DataNames(datasets))
    THEN "data_name should be unique for each dataset"
    ELSE NoError

\* ------------------------------------------------------------ sections with defaults only

PaddingSides == {"left", "right"}

TokenizerArgs(r) ==
    LET self == [additional_special_tokens |-> r.additional_special_tokens,
                 padding_side |-> r.padding_side]
    IN Built(EnumError("padding_side", r.padding_side, PaddingSides), self)

TokenizerArgsDefault == [additional_special_tokens |-> None, padding_side |-> None]
RandomArgsDefault == [seed |-> 42]
OptimizerArgsDefault ==
    [class_name |-> "ApexFusedAdam",
     class_args |-> [lr |-> "1e-05", weight_decay |-> "0.1",
                     betas |-> <<"0.9", "0.95">>, eps |-> "1e-10"]]
LRSchedulerArgsDefault == [lr_schedule |-> "cosine", num_warmup_steps |-> 200]
LoggingArgsDefault ==
    [logging_level |-> "INFO", log_interval |-> 1, aim_repo |-> None, experiment_name |-> None]
DistributedArgsDefault ==
    [stage |-> 3, distributed_backend |-> "torch", overlap_comm |-> FALSE,
     contiguous_gradients |-> FALSE, cpu_offload |-> FALSE, gradient_checkpointing |-> FALSE]

\* ------------------------------------------------------------ TrainingArgs

TrainingArgsPostInit(self) ==
    FirstError(<<
        CheckNotNone(<< <<self.model_args, "model_args">>,
                        <<self.tuning_args, "tuning_args">>,
                        <<self.save_args, "save_args">>,
                        <<Some(self.datasets), "datasets">> >>),
        CheckDatasets(self.datasets) >>)

\* pydantic validates the fields in declaration order, constructing each nested
\* section (and running its model_post_init) while it does, and calls the
\* parent's model_post_init only when no field failed.
TrainingArgs(r, ibm) ==
    LET tok == IF r.tokenizer_args = None THEN Built(NoError, TokenizerArgsDefault) ELSE TokenizerArgs(Val(r.tokenizer_args))
        mdl == IF r.model_args = None THEN Absent
               ELSE ModelArgs(Val(r.model_args), ibm)
        tun == IF r.tuning_args = None THEN Absent ELSE TuningArgs(Val(r.tuning_args))
        dss == DatasetList(r.datasets)
        sav == IF r.save_args = None THEN Absent ELSE SaveArgs(Val(r.save_args))
        tp  == IF r.training_parameters = None THEN Absent ELSE TrainingParameters(Val(r.training_parameters))
        fieldErr == FirstError(<<tok.err, mdl.err, tun.err, dss.err, sav.err, tp.err>>)
        self == [random_args |-> RandomArgsDefault,
                 tokenizer_args |-> Val(tok.node),
                 model_args |-> mdl.node,
                 tuning_args |-> tun.node,
                 optimizer_args |-> OptimizerArgsDefault,
                 lr_scheduler_args |-> LRSchedulerArgsDefault,
                 datasets |-> dss.node,
                 save_args |-> sav.node,
                 load_args |-> None,
                 training_parameters |-> tp.node,
                 logging_args |-> LoggingArgsDefault,
                 distributed_args |-> DistributedArgsDefault]
    IN IF fieldErr # NoError THEN [err |-> fieldErr, node |-> None]
       ELSE Built(TrainingArgsPostInit(self), self)

\* ------------------------------------------------------------ InferenceArgs

InferenceArgsPostInit(self) ==
    FirstError(<<
        CheckNotNone(<< <<self.model_args, "model_args">>,
                        <<self.tuning_args, "tuning_args">>,
                        <<Some(self.datasets), "datasets">>,
                        <<self.generation_parameters, "generation_parameters">>,
                        <<self.output_dir, "output_dir">> >>),
        CheckDatasets(self.datasets) >>)

InferenceArgs(r, ibm) ==
    LET tok == IF r.tokenizer_args = None THEN Built(NoError, TokenizerArgsDefault) ELSE TokenizerArgs(Val(r.tokenizer_args))
        mdl == IF r.model_args = None THEN Absent
               ELSE ModelArgs(Val(r.model_args), ibm)
        tun == IF r.tuning_args = None THEN Absent ELSE TuningArgs(Val(r.tuning_args))
        dss == DatasetList(r.datasets)
        gen == IF r.generation_parameters = None THEN Absent ELSE GenerationParameters(Val(r.generation_parameters))
        fieldErr == FirstError(<<tok.err, mdl.err, tun.err, dss.err, gen.err>>)
        self == [random_args |-> RandomArgsDefault,
                 tokenizer_args |-> Val(tok.node),
                 model_args |-> mdl.node,
                 tuning_args |-> tun.node,
                 datasets |-> dss.node,
                 load_args |-> None,
                 generation_parameters |-> gen.node,
                 logging_args |-> LoggingArgsDefault,
                 output_dir |-> r.output_dir]
    IN IF fieldErr # NoError THEN [err |-> fieldErr, node |-> None]
       ELSE Built(InferenceArgsPostInit(self), self)

\* ------------------------------------------------------------ ExportArgs

ExportArgsPostInit(self) ==
    CheckNotNone(<< <<self.model_args, "model_args">>,
                    <<self.tuning_args, "tuning_args">>,
                    <<self.load_args, "load_args">>,
                    <<self.export_path, "export_path">> >>)

ExportArgs(r, ibm) ==
    LET tok == IF r.tokenizer_args = None THEN Built(NoError, TokenizerArgsDefault) ELSE TokenizerArgs(Val(r.tokenizer_args))
        mdl == IF r.model_args = None THEN Absent
               ELSE ModelArgs(Val(r.model_args), ibm)
        tun == IF r.tuning_args = None THEN Absent ELSE TuningArgs(Val(r.tuning_args))
        lod == IF r.load_args = None THEN Absent ELSE LoadArgs(Val(r.load_args))
        fieldErr == FirstError(<<tok.err, mdl.err, tun.err, lod.err>>)
        self == [tokenizer_args |-> Val(tok.node),
                 model_args |-> mdl.node,
                 tuning_args |-> tun.node,
                 load_args |-> lod.node,
                 logging_args |-> LoggingArgsDefault,
                 export_path |-> r.export_path]
    IN IF fieldErr # NoError THEN [err |-> fieldErr, node |-> None]
       ELSE Built(ExportArgsPostInit(self), self)

\* ------------------------------------------------------------ _MODE_ARGS_MAP

ModeArgs(m, r, ibm) ==
    IF m = "training" THEN TrainingArgs(r, ibm)
    ELSE IF m = "inference" THEN InferenceArgs(r, ibm)
    ELSE ExportArgs(r, ibm)

\* ------------------------------------------------------------ raw inputs

RawPromptTuningArgs ==
    [prompt_tuning_init : {None, Some("RANDOM"), Some("TEXT")},
     prompt_tuning_init_text : {None, Some("init text")},
     num_virtual_tokens : {Some(8)}]

RawLoRAArgs == [lora_rank : {None, Some(8)}]

RawTuningArgs ==
    [tuning_method : {None} \cup {Some(t) : t \in TuningMethods \cup {"bogus"}},
     prompt_tuning_args : {None} \cup {Some(p) : p \in RawPromptTuningArgs},
     lora_args : {None} \cup {Some(l) : l \in RawLoRAArgs}]

RawTrainingParameters ==
    [num_training_steps : {None, Some(10)},
     batch_size_per_gpu : {None, Some(4)},
     eval_interval : {None, Some(5)},
     eval_during_training : {None, Some(TRUE), Some(FALSE)}]

GoodPromptTuning ==
    [prompt_tuning_init |-> Some("RANDOM"), prompt_tuning_init_text |-> None,
     num_virtual_tokens |-> Some(8)]
GoodLoRA == [lora_rank |-> Some(8)]

\* the tuning sections get_args is tried with: every tag alone, with its own
\* sub-config, and full_finetuning with a sub-config
ConfigTunings ==
    {None} \cup
    {Some([tuning_method |-> Some(t[1]), prompt_tuning_args |-> t[2], lora_args |-> t[3]]) :
        t \in {<<"full_finetuning", None, None>>,
               <<"full_finetuning", Some(GoodPromptTuning), None>>,
               <<"prompt_tuning", Some(GoodPromptTuning), None>>,
               <<"prompt_tuning", None, None>>,
               <<"lora", None, Some(GoodLoRA)>>,
               <<"lora", None, None>>}}

GoodModel ==
    [model_name |-> Some("gpt"), model_class |-> Some("AutoModelForCausalLM"),
     dtype |-> Some("bfloat16"), attention_implementation |-> None]

ConfigModels ==
    {None, Some(GoodModel),
     Some([GoodModel EXCEPT !.model_name = None]),
     Some([GoodModel EXCEPT !.dtype = None, !.attention_implementation = Some("flash")])}

GoodTokenizer ==
    [additional_special_tokens |-> Some(<<"<s>", "<e>">>), padding_side |-> Some("left")]

\* the tokenizer sections get_args is tried with
ConfigTokenizers == {None}

RawDataset(cls, name, ratio) ==
    [class_name |-> cls, data_name |-> name, data_sampling_ratio |-> ratio]

RawDatasets ==
    {RawDataset(Some("SST2"), Some("d1"), Some(1)),
     RawDataset(Some("SST2"), Some("d2"), Some(1)),
     RawDataset(Some("SST2"), Some("d1"), Some(0)),
     RawDataset(Some("SST2"), Some("d2"), Some(-1)),
     RawDataset(Some("SST2"), None, Some(1)),
     RawDataset(None, Some("d2"), Some(2))}

DatasetLists == UNION {[1..n -> RawDatasets] : n \in 0..MaxDatasets}

GoodSave == [save_path |-> Some("/tmp/x"), save_interval |-> Some(100)]
GoodLoad == [load_path |-> Some("/tmp/x"), iteration |-> Some(100)]
GoodGeneration == [batch_size |-> Some(4), max_new_tokens |-> Some(20)]
GoodTrainingParameters ==
    [num_training_steps |-> Some(10), batch_size_per_gpu |-> Some(4),
     eval_interval |-> None, eval_during_training |-> Some(FALSE)]

\* the raw configs get_args is tried with, by mode: the sections the mode's
\* class declares and reads (other keys are kept as extras and never validated)
RawConfigs(m) ==
    IF m = "training" THEN
        [tokenizer_args : ConfigTokenizers, model_args : ConfigModels,
         tuning_args : ConfigTunings, datasets : DatasetLists,
         save_args : {None, Some(GoodSave)},
         training_parameters :
            {None, Some(GoodTrainingParameters),
             Some([GoodTrainingParameters EXCEPT !.eval_during_training = None])}]
    ELSE IF m = "inference" THEN
        [tokenizer_args : ConfigTokenizers, model_args : ConfigModels,
         tuning_args : ConfigTunings, datasets : DatasetLists,
         generation_parameters : {None, Some(GoodGeneration)},
         output_dir : {None, Some("out")}]
    ELSE
        [tokenizer_args : ConfigTokenizers, model_args : ConfigModels,
         tuning_args : ConfigTunings,
         load_args : {None, Some(GoodLoad)},
         export_path : {None, Some("exported")}]

ConfigSuffixes == {"json", "yaml", "yml", "txt"}

\* ------------------------------------------------------------ idle parts

IdleArgs ==
    /\ pc = "idle" /\ op = "none" /\ mode = "none" /\ raw = None
    /\ outcome = NoError /\ node = None /\ argsFileExtension = None /\ log = <<>>

IdleDeepspeed ==
    dsCache = None /\ dsTable = None /\ dsCall = None /\ dsHist = None /\ th = None

IdleToDict == tdIn = None /\ tdOut = None

IdleLogArgs == laIn = None /\ laOut = None

\* ===================================================== distributed/deepspeed.py
\* A dict is a function from its keys; an object is the function from its
\* attribute names to their values, so that an attribute the object lacks is
\* a name outside its domain.  None, the object without attributes, lacks all.

EmptyDict == <<>>
DictUpdate(d, u) == [k \in DOMAIN d \cup DOMAIN u |-> IF k \in DOMAIN u THEN u[k] ELSE d[k]]
HasAttr(obj, name) == name \in DOMAIN obj

\* _DEEPSPEED_MIXED_PRECISION_CONFIG
MixedPrecisionConfig ==
    [fp32 |-> EmptyDict,
     fp16 |-> [fp16 |-> [enabled |-> TRUE, auto_cast |-> TRUE]],
     bf16 |-> [bf16 |-> [enabled |-> TRUE]]]

\* the attributes get_deepspeed_config reads, in the order it reads them
DistributedReads ==
    <<"stage", "overlap_comm", "contiguous_gradients", "zero_hpz_partition_size",
      "zero_quantized_weights", "zero_quantized_gradients">>
TrainingReads == <<"micro_batch_size", "gradient_accumulation_steps", "gradient_clipping">>

MissingAttr(obj, names) ==
    FirstError([i \in 1..Len(names) |->
        IF HasAttr(obj, names[i]) THEN NoError ELSE "AttributeError: " \o names[i]])

\* the exception a derivation from args raises under the table, NoError when
\* it completes: the reads of lines 31-57 in the order the code makes them,
\* the first that fails ending the derivation
DeriveError(args, table) ==
    IF ~HasAttr(args, "distributed_args") THEN "AttributeError: distributed_args"
    ELSE IF MissingAttr(args.distributed_args, DistributedReads) # NoError
    THEN MissingAttr(args.distributed_args, DistributedReads)
    ELSE IF ~HasAttr(args, "training_parameters") THEN "AttributeError: training_parameters"
    ELSE IF MissingAttr(args.training_parameters, TrainingReads) # NoError
    THEN MissingAttr(args.training_parameters, TrainingReads)
    ELSE IF ~HasAttr(args, "mixed_precision_args") THEN "AttributeError: mixed_precision_args"
    ELSE IF ~HasAttr(args.mixed_precision_args, "dtype") THEN "AttributeError: dtype"
    ELSE IF args.mixed_precision_args.dtype \notin DOMAIN table
    THEN "KeyError: " \o args.mixed_precision_args.dtype
    ELSE MissingAttr(args.distributed_args, <<"communication_dtype", "cpu_offload">>)

\* lines 46-53: the table's entry for the dtype, overlaid with the
\* communication dtype when one is set
DtypeConfig(args, table) ==
    LET base == table[args.mixed_precision_args.dtype]
        comm == args.distributed_args.communication_dtype
    IN IF comm # None
       THEN DictUpdate(base, [data_types |-> [grad_accum_dtype |-> Val(comm)],
                              communication_data_type |-> Val(comm)])
       ELSE base

\* line 46 with the deepcopy left out: the overlay of lines 48-53 lands in the
\* table's own entry
TableAfterDeriveShared(args, table) ==
    [table EXCEPT ![args.mixed_precision_args.dtype] = DtypeConfig(args, table)]

\* line 46: dtype_config is a deepcopy, so the table keeps its entries
TableAfterDerive(args, table) == table

CpuParams == [device |-> "cpu", pin_memory |-> TRUE]

\* lines 30-40 and 57-60: the zero_optimization block
ZeroOptimization(args) ==
    LET d == args.distributed_args
        zero == [stage |-> d.stage,
                 overlap_comm |-> d.overlap_comm,
                 contiguous_gradients |-> d.contiguous_gradients,
                 zero_hpz_partition_size |-> d.zero_hpz_partition_size,
                 zero_quantized_weights |-> d.zero_quantized_weights,
                 zero_quantized_gradients |-> d.zero_quantized_gradients]
    IN IF d.cpu_offload
       THEN DictUpdate(zero, [offload_param |-> CpuParams, offload_optimizer |-> CpuParams])
       ELSE zero

\* lines 29-60: the config a derivation that does not raise builds
DeriveConfig(args, table) ==
    DictUpdate([zero_optimization |-> ZeroOptimization(args),
                train_micro_batch_size_per_gpu |-> args.training_parameters.micro_batch_size,
                gradient_accumulation_steps |-> args.training_parameters.gradient_accumulation_steps,
                gradient_clipping |-> args.training_parameters.gradient_clipping],
               DtypeConfig(args, table))

\* the global assigned before the config is complete (line 62 moved above
\* line 29): a derivation that raises leaves the unfinished dict in the cache
CacheAfterRaisePartial(cache, args) == Some(EmptyDict)

\* lines 29-62: an exception raised while deriving leaves the function before
\* the assignment of line 62, so the global keeps its value
CacheAfterRaise(cache, args) == cache

\* a variant of line 28 that derives on every call
CacheAbsentOrStale(cache) == TRUE

\* line 28: _DEEPSPEED_CONFIG is None
CacheAbsent(cache) == cache = None

\* ------------------------------------------------------------ deepspeed inputs

\* most calls one process makes in the sequential specification
MaxCalls == 3

DistributedProfiles ==
    {[stage |-> 3, overlap_comm |-> FALSE, contiguous_gradients |-> FALSE,
      zero_hpz_partition_size |-> 1, zero_quantized_weights |-> FALSE,
      zero_quantized_gradients |-> FALSE],
     [stage |-> 2, overlap_comm |-> TRUE, contiguous_gradients |-> FALSE,
      zero_hpz_partition_size |-> 8, zero_quantized_weights |-> TRUE,
      zero_quantized_gradients |-> FALSE],
     [stage |-> 1, overlap_comm |-> FALSE, contiguous_gradients |-> TRUE,
      zero_hpz_partition_size |-> 2, zero_quantized_weights |-> FALSE,
      zero_quantized_gradients |-> TRUE]}

GoodTraining ==
    [micro_batch_size |-> 4, gradient_accumulation_steps |-> 1, gradient_clipping |-> 1]

\* the args whose derivation completes
GoodDsArgs ==
    {[distributed_args |-> DictUpdate(p, [communication_dtype |-> c, cpu_offload |-> o]),
      training_parameters |-> GoodTraining,
      mixed_precision_args |-> [dtype |-> d]] :
        p \in DistributedProfiles, c \in {None, Some("fp32")}, o \in BOOLEAN,
        d \in {"fp32", "fp16", "bf16"}}

BaseDsArgs ==
    CHOOSE a \in GoodDsArgs :
        /\ a.distributed_args.stage = 3 /\ a.distributed_args.cpu_offload
        /\ a.distributed_args.communication_dtype # None /\ a.mixed_precision_args.dtype = "bf16"

\* args whose derivation raises: a dtype the table has no key for, no
\* training_parameters, a distributed section without the ZeRO++ fields, a
\* distributed section without communication_dtype
BadDsArgs ==
    {[BaseDsArgs EXCEPT !.mixed_precision_args = [dtype |-> "fp8"]],
     [BaseDsArgs EXCEPT !.training_parameters = None],
     [BaseDsArgs EXCEPT !.distributed_args =
        [stage |-> 3, overlap_comm |-> FALSE, contiguous_gradients |-> FALSE,
         cpu_offload |-> FALSE]],
     [BaseDsArgs EXCEPT !.distributed_args =
        [k \in DOMAIN BaseDsArgs.distributed_args \ {"communication_dtype"} |->
            BaseDsArgs.distributed_args[k]]]}

DsArgs == GoodDsArgs \cup BadDsArgs

\* ------------------------------------------------------------ get_deepspeed_config

\* One whole call, lines 26-64.  dsHist is a ghost: the calls made, the calls
\* that raised, the cache assignments made, and the args of the first
\* derivation that was published.
GetDeepspeedConfig(args) ==
    /\ dsHist.calls < MaxCalls
    /\ IF CacheAbsent(dsCache)
       THEN LET err == DeriveError(args, dsTable)
            IN IF err # NoError
               THEN /\ dsCall' = [args |-> args, raised |-> err, value |-> None]
                    /\ dsHist' = [dsHist EXCEPT !.calls = @ + 1, !.raised = @ + 1]
                    /\ dsCache' = CacheAfterRaise(dsCache, args)
                    /\ UNCHANGED dsTable
               ELSE /\ dsTable' = TableAfterDerive(args, dsTable)
                    /\ dsCache' = Some(DeriveConfig(args, dsTable))
                    /\ dsCall' = [args |-> args, raised |-> NoError, value |-> dsCache']
                    /\ dsHist' = [calls |-> dsHist.calls + 1,
                                  raised |-> dsHist.raised,
                                  published |-> dsHist.published + 1,
                                  first |-> IF dsHist.published = 0 THEN Some(args)
                                            ELSE dsHist.first]
       ELSE /\ dsCall' = [args |-> args, raised |-> NoError, value |-> dsCache]
            /\ dsHist' = [dsHist EXCEPT !.calls = @ + 1]
            /\ UNCHANGED <<dsCache, dsTable>>
    /\ UNCHANGED <<argsVars, tdVars, laVars, th>>

InitDeepspeed ==
    /\ IdleArgs /\ IdleToDict /\ IdleLogArgs
    /\ dsCache = None
    /\ dsTable = MixedPrecisionConfig
    /\ dsCall = None
    /\ dsHist = [calls |-> 0, raised |-> 0, published |-> 0, first |-> None]
    /\ th = None

NextDeepspeed == \E args \in DsArgs : GetDeepspeedConfig(args)

SpecDeepspeed == InitDeepspeed /\ [][NextDeepspeed]_vars

\* ------------------------------------------------------------ concurrent callers

\* threads calling get_deepspeed_config at once
NumThreads == 2
Threads == 1..NumThreads

ThreadArgs ==
    {BaseDsArgs,
     CHOOSE a \in GoodDsArgs :
        /\ a.distributed_args.stage = 2 /\ ~a.distributed_args.cpu_offload
        /\ a.distributed_args.communication_dtype = None /\ a.mixed_precision_args.dtype = "fp16",
     [BaseDsArgs EXCEPT !.mixed_precision_args = [dtype |-> "fp8"]]}

\* The function takes no lock, so the interpreter may switch threads between
\* any two of its statements.  A thread's steps: the test of line 28, the
\* building of the local config (lines 29-60), the assignment of line 62, the
\* read of the global for the return of line 64.

\* line 28
Check(t) ==
    /\ th[t].pc = "check"
    /\ th' = [th EXCEPT ![t].pc = IF CacheAbsent(dsCache) THEN "build" ELSE "return"]
    /\ UNCHANGED <<dsCache, dsTable, dsCall, dsHist, argsVars, tdVars, laVars>>

\* lines 29-60
Build(t) ==
    /\ th[t].pc = "build"
    /\ IF DeriveError(th[t].args, dsTable) # NoError
       THEN /\ th' = [th EXCEPT ![t].pc = "raised"]
            /\ dsHist' = [dsHist EXCEPT !.raised = @ + 1]
            /\ UNCHANGED dsTable
       ELSE /\ th' = [th EXCEPT ![t].pc = "publish",
                                ![t].config = Some(DeriveConfig(th[t].args, dsTable))]
            /\ dsTable' = TableAfterDerive(th[t].args, dsTable)
            /\ UNCHANGED dsHist
    /\ UNCHANGED <<dsCache, dsCall, argsVars, tdVars, laVars>>

\* line 62
Publish(t) ==
    /\ th[t].pc = "publish"
    /\ dsCache' = th[t].config
    /\ dsHist' = [dsHist EXCEPT !.published = @ + 1,
                                !.first = IF dsHist.published = 0 THEN Some(th[t].args) ELSE @]
    /\ th' = [th EXCEPT ![t].pc = "return"]
    /\ UNCHANGED <<dsTable, dsCall, argsVars, tdVars, laVars>>

\* line 64
Return(t) ==
    /\ th[t].pc = "return"
    /\ th' = [th EXCEPT ![t].pc = "done", ![t].ret = dsCache]
    /\ UNCHANGED <<dsCache, dsTable, dsCall, dsHist, argsVars, tdVars, laVars>>

InitThreads ==
    /\ IdleArgs /\ IdleToDict /\ IdleLogArgs
    /\ dsCache = None
    /\ dsTable = MixedPrecisionConfig
    /\ dsCall = None
    /\ dsHist = [calls |-> 0, raised |-> 0, published |-> 0, first |-> None]
    /\ th \in [Threads -> {[pc |-> "check", args |-> a, config |-> None, ret |-> None] :
                              a \in ThreadArgs}]

NextThreads ==
    \E t \in Threads : Check(t) \/ Build(t) \/ Publish(t) \/ Return(t)

SpecThreads == InitThreads /\ [][NextThreads]_vars

\* ================================================================ BaseArgs.to_dict
\* Python values as to_dict tells them apart (isinstance BaseArgs, list, Enum,
\* type): each value is a record tagged with its kind.  A node and a dict keep
\* their keys in order, keys[i] holding vals[i].

VNone == [k |-> "none"]
VStr(s) == [k |-> "str", s |-> s]
VInt(i) == [k |-> "int", i |-> i]
VBool(b) == [k |-> "bool", b |-> b]
VFloat(s) == [k |-> "float", s |-> s]
VEnum(cls, value) == [k |-> "enum", cls |-> cls, value |-> value]
VType(name) == [k |-> "type", name |-> name]
VDtype(name) == [k |-> "dtype", name |-> name]
VList(items) == [k |-> "list", items |-> items]
VDict(keys, vals) == [k |-> "dict", keys |-> keys, vals |-> vals]
VNode(cls, keys, vals) == [k |-> "node", cls |-> cls, keys |-> keys, vals |-> vals]

OptStr(o) == IF o = None THEN VNone ELSE VStr(Val(o))
OptInt(o) == IF o = None THEN VNone ELSE VInt(Val(o))
StrList(l) == VList([i \in 1..Len(l) |-> VStr(l[i])])

\* the value stored under a key of a node or dict
Field(n, key) == n.vals[CHOOSE i \in 1..Len(n.keys) : n.keys[i] = key]

\* result[key] = v on a dict
DictSet(d, key, v) ==
    IF \E i \in 1..Len(d.keys) : d.keys[i] = key
    THEN VDict(d.keys, [i \in 1..Len(d.keys) |-> IF d.keys[i] = key THEN v ELSE d.vals[i]])
    ELSE VDict(Append(d.keys, key), Append(d.vals, v))

\* str(value).split("."): a torch.dtype prints as torch.<name>; the other
\* strings used here hold no dot
StrSplitDot(v) == IF v.k = "dtype" THEN <<"torch", v.name>> ELSE <<v.s>>

RECURSIVE ToDict(_)
\* lines 33-45: the conversion of one field value
ConvertValue(v) ==
    IF v.k = "node" THEN ToDict(v)
    ELSE IF v.k = "list"
    THEN LET kept == SelectSeq(v.items, LAMBDA x : x.k = "node")
         IN VList([i \in 1..Len(kept) |-> ToDict(kept[i])])
    ELSE IF v.k = "enum" THEN VStr(v.value)
    ELSE IF v.k = "type" THEN VStr(v.name)
    ELSE v

\* lines 30-49 applied to the items of a node (or of a mapping read as one):
\* vars(copied), every value converted
BaseToDict(n) == VDict(n.keys, [i \in 1..Len(n.vals) |-> ConvertValue(n.vals[i])])

\* to_dict as the node's class defines it: ModelArgs overrides it (lines
\* 103-106), the other classes inherit BaseArgs.to_dict
ToDict(n) ==
    IF n.cls = "ModelArgs"
    THEN DictSet(BaseToDict(n), "dtype", VStr(StrSplitDot(Field(n, "dtype"))[2]))
    ELSE BaseToDict(n)

\* line 30: the conversion works on a deepcopy, self keeps its fields
SelfAfterToDict(n) == n

\* ------------------------------------------------------------ resolved trees as values

TokenizerValue(n) ==
    VNode("TokenizerArgs", <<"additional_special_tokens", "padding_side">>,
          <<IF n.additional_special_tokens = None THEN VNone
            ELSE StrList(Val(n.additional_special_tokens)),
            IF n.padding_side = None THEN VNone ELSE VEnum("PaddingSide", Val(n.padding_side))>>)

ModelValue(n) ==
    VNode("ModelArgs",
          <<"model_name", "model_class", "dtype", "trust_remote_code", "attention_implementation">>,
          <<OptStr(n.model_name), VType(Val(n.model_class)), VDtype(n.dtype),
            VBool(n.trust_remote_code),
            IF n.attention_implementation = None THEN VNone
            ELSE VEnum("AttentionImplementation", Val(n.attention_implementation))>>)

PromptTuningValue(n) ==
    VNode("PromptTuningArgs",
          <<"prompt_tuning_init", "prompt_tuning_init_text", "num_virtual_tokens">>,
          <<VEnum("PromptTuningInit", Val(n.prompt_tuning_init)),
            OptStr(n.prompt_tuning_init_text), OptInt(n.num_virtual_tokens)>>)

LoRAValue(n) ==
    VNode("LoRAArgs", <<"lora_rank", "lora_alpha", "lora_dropout">>,
          <<OptInt(n.lora_rank), VFloat(n.lora_alpha), VFloat(n.lora_dropout)>>)

TuningValue(n) ==
    VNode("TuningArgs", <<"tuning_method", "prompt_tuning_args", "lora_args">>,
          <<VEnum("TuningMethod", Val(n.tuning_method)),
            IF n.prompt_tuning_args = None THEN VNone ELSE PromptTuningValue(Val(n.prompt_tuning_args)),
            IF n.lora_args = None THEN VNone ELSE LoRAValue(Val(n.lora_args))>>)

DatasetValue(n) ==
    VNode("DatasetArgs",
          <<"class_name", "class_args", "data_name", "input_format", "output_format",
            "data_sampling_ratio", "max_input_tokens", "max_output_tokens">>,
          <<OptStr(n.class_name), VDict(<<>>, <<>>), OptStr(n.data_name),
            VStr(n.input_format), VStr(n.output_format), OptInt(n.data_sampling_ratio),
            OptInt(n.max_input_tokens), OptInt(n.max_output_tokens)>>)

DatasetsValue(l) == VList([i \in 1..Len(l) |-> DatasetValue(l[i])])

SaveValue(n) ==
    VNode("SaveArgs", <<"save_path", "save_interval">>,
          <<OptStr(n.save_path), OptInt(n.save_interval)>>)

LoadValue(n) ==
    VNode("LoadArgs", <<"load_path", "iteration">>, <<OptStr(n.load_path), OptInt(n.iteration)>>)

TrainingParametersValue(n) ==
    VNode("TrainingParameters",
          <<"ignore_sampling_proportion_for_validation", "num_training_steps",
            "gradient_accumulation_steps", "eval_interval", "batch_size_per_gpu",
            "eval_during_training">>,
          <<VBool(n.ignore_sampling_proportion_for_validation), OptInt(n.num_training_steps),
            VInt(n.gradient_accumulation_steps), OptInt(n.eval_interval),
            OptInt(n.batch_size_per_gpu), VBool(n.eval_during_training)>>)

GenerationValue(n) ==
    VNode("GenerationParameters",
          <<"batch_size", "do_sample", "max_new_tokens", "temperature", "top_k", "top_p">>,
          <<OptInt(n.batch_size), VNone, OptInt(n.max_new_tokens), VNone, VNone, VNone>>)

RandomValue(n) == VNode("RandomArgs", <<"seed">>, <<VInt(n.seed)>>)

OptimizerValue(n) ==
    VNode("OptimizerArgs", <<"class_name", "class_args">>,
          <<VStr(n.class_name),
            VDict(<<"lr", "weight_decay", "betas", "eps">>,
                  <<VFloat(n.class_args.lr), VFloat(n.class_args.weight_decay),
                    VList(<<VFloat(n.class_args.betas[1]), VFloat(n.class_args.betas[2])>>),
                    VFloat(n.class_args.eps)>>)>>)

LRSchedulerValue(n) ==
    VNode("LRSchedulerArgs", <<"lr_schedule", "num_warmup_steps">>,
          <<VStr(n.lr_schedule), VInt(n.num_warmup_steps)>>)

LoggingValue(n) ==
    VNode("LoggingArgs", <<"logging_level", "log_interval", "aim_repo", "experiment_name">>,
          <<VStr(n.logging_level), VInt(n.log_interval), OptStr(n.aim_repo),
            OptStr(n.experiment_name)>>)

DistributedValue(n) ==
    VNode("DistributedArgs",
          <<"stage", "distributed_backend", "overlap_comm", "contiguous_gradients",
            "cpu_offload", "gradient_checkpointing">>,
          <<VInt(n.stage), VEnum("DistributedBackend", n.distributed_backend),
            VBool(n.overlap_comm), VBool(n.contiguous_gradients), VBool(n.cpu_offload),
            VBool(n.gradient_checkpointing)>>)

TrainingArgsValue(n) ==
    VNode("TrainingArgs",
          <<"random_args", "tokenizer_args", "model_args", "tuning_args", "optimizer_args",
            "lr_scheduler_args", "datasets", "save_args", "load_args", "training_parameters",
            "logging_args", "distributed_args">>,
          <<RandomValue(n.random_args), TokenizerValue(n.tokenizer_args),
            ModelValue(Val(n.model_args)), TuningValue(Val(n.tuning_args)),
            OptimizerValue(n.optimizer_args), LRSchedulerValue(n.lr_scheduler_args),
            DatasetsValue(n.datasets), SaveValue(Val(n.save_args)),
            IF n.load_args = None THEN VNone ELSE LoadValue(Val(n.load_args)),
            IF n.training_parameters = None THEN VNone
            ELSE TrainingParametersValue(Val(n.training_parameters)),
            LoggingValue(n.logging_args), DistributedValue(n.distributed_args)>>)

InferenceArgsValue(n) ==
    VNode("InferenceArgs",
          <<"random_args", "tokenizer_args", "model_args", "tuning_args", "datasets",
            "load_args", "generation_parameters", "logging_args", "output_dir">>,
          <<RandomValue(n.random_args), TokenizerValue(n.tokenizer_args),
            ModelValue(Val(n.model_args)), TuningValue(Val(n.tuning_args)),
            DatasetsValue(n.datasets),
            IF n.load_args = None THEN VNone ELSE LoadValue(Val(n.load_args)),
            GenerationValue(Val(n.generation_parameters)),
            LoggingValue(n.logging_args), OptStr(n.output_dir)>>)

ExportArgsValue(n) ==
    VNode("ExportArgs",
          <<"tokenizer_args", "model_args", "tuning_args", "load_args", "logging_args",
            "export_path">>,
          <<TokenizerValue(n.tokenizer_args), ModelValue(Val(n.model_args)),
            TuningValue(Val(n.tuning_args)), LoadValue(Val(n.load_args)),
            LoggingValue(n.logging_args), OptStr(n.export_path)>>)

ArgsValue(m, n) ==
    IF m = "training" THEN TrainingArgsValue(n)
    ELSE IF m = "inference" THEN InferenceArgsValue(n)
    ELSE ExportArgsValue(n)

\* ------------------------------------------------------------ to_dict inputs

\* the raw configs of RawConfigs, with and without a tokenizer section
ToDictConfigs(m) ==
    {[r EXCEPT !.tokenizer_args = t] : r \in RawConfigs(m), t \in {None, Some(GoodTokenizer)}}

\* the trees get_args returns in mode m
ResolvedTrees(m) ==
    {ArgsValue(m, Val(ModeArgs(m, r, TRUE).node)) :
        r \in {x \in ToDictConfigs(m) : ModeArgs(m, x, TRUE).err = NoError}}

\* the nodes a node holds directly, as fields or in lists
Children(n) ==
    {n.vals[i] : i \in {j \in 1..Len(n.vals) : n.vals[j].k = "node"}}
    \cup UNION {{n.vals[i].items[e] :
                    e \in {f \in 1..Len(n.vals[i].items) : n.vals[i].items[f].k = "node"}} :
                i \in {j \in 1..Len(n.vals) : n.vals[j].k = "list"}}

\* to_dict is called on a resolved tree or on one of its sections
ToDictInputs(m) ==
    LET sections == UNION {Children(t) : t \in ResolvedTrees(m)}
    IN ResolvedTrees(m) \cup sections \cup UNION {Children(c) : c \in sections}

RootClasses == {"TrainingArgs", "InferenceArgs", "ExportArgs"}

CallToDict ==
    /\ tdOut = None
    /\ tdOut' = Some([self |-> SelfAfterToDict(tdIn), result |-> ToDict(tdIn)])
    /\ UNCHANGED <<tdIn, argsVars, dsVars, laVars>>

InitToDict ==
    /\ IdleArgs /\ IdleDeepspeed /\ IdleLogArgs
    /\ tdIn \in UNION {ToDictInputs(m) : m \in Modes}
    /\ tdOut = None

NextToDict == CallToDict

SpecToDict == InitToDict /\ [][NextToDict]_vars

\* ===================================================================== log_args
\* A text (a Python str) is the sequence of its characters, each a string of
\* length one, so that texts can be compared the way Python compares them:
\* character by character, by code point.

\* the printable ASCII characters, in code point order from 32 (the grave
\* accent, which a TLA+ string cannot hold, by its name)
Ascii ==
    <<" ", "!", "\"", "#", "$", "%", "&", "'", "(", ")", "*", "+", ",", "-", ".", "/",
      "0", "1", "2", "3", "4", "5", "6", "7", "8", "9", ":", ";", "<", "=", ">", "?",
      "@", "A", "B", "C", "D", "E", "F", "G", "H", "I", "J", "K", "L", "M", "N", "O",
      "P", "Q", "R", "S", "T", "U", "V", "W", "X", "Y", "Z", "[", "\\", "]", "^", "_",
      "grave", "a", "b", "c", "d", "e", "f", "g", "h", "i", "j", "k", "l", "m", "n", "o",
      "p", "q", "r", "s", "t", "u", "v", "w", "x", "y", "z", "{", "|", "}", "~">>

NewLine == "\n"

\* ord(c)
OrdOf ==
    [c \in {Ascii[i] : i \in 1..Len(Ascii)} \cup {NewLine} |->
        IF c = NewLine THEN 10 ELSE 31 + (CHOOSE i \in 1..Len(Ascii) : Ascii[i] = c)]

\* str.lower, on one character and on a text
Lower(c) == IF OrdOf[c] \in 65..90 THEN Ascii[OrdOf[c] + 1] ELSE c
LowerText(t) == [i \in 1..Len(t) |-> Lower(t[i])]

\* a < b on Python strings, from character i on: the first character that
\* differs decides, and a proper prefix is smaller
RECURSIVE LessFrom(_, _, _)
LessFrom(a, b, i) ==
    IF i > Len(b) THEN FALSE
    ELSE IF i > Len(a) THEN TRUE
    ELSE IF a[i] = b[i] THEN LessFrom(a, b, i + 1)
    ELSE OrdOf[a[i]] < OrdOf[b[i]]

LessText(a, b) == LessFrom(a, b, 1)

\* c * n: the empty text when n is not positive
Repeat(c, n) == IF n <= 0 THEN <<>> ELSE [i \in 1..n |-> c]

\* sep.join(parts)
RECURSIVE Join(_, _)
Join(parts, sep) ==
    IF Len(parts) = 0 THEN <<>>
    ELSE IF Len(parts) = 1 THEN parts[1]
    ELSE parts[1] \o sep \o Join(Tail(parts), sep)

\* text.split("\n")
RECURSIVE SplitLines(_)
SplitLines(t) ==
    LET nl == {i \in 1..Len(t) : t[i] = NewLine}
    IN IF nl = {} THEN <<t>>
       ELSE LET i == CHOOSE x \in nl : \A y \in nl : x <= y
            IN <<SubSeq(t, 1, i - 1)>> \o SplitLines(SubSeq(t, i + 1, Len(t)))

\* str(i) of an int
RECURSIVE NatText(_)
NatText(i) == IF i < 10 THEN <<Ascii[17 + i]>> ELSE NatText(i \div 10) \o <<Ascii[17 + (i % 10)]>>
IntText(i) == IF i < 0 THEN <<"-">> \o NatText(0 - i) ELSE NatText(i)

\* str(v) of a value that is neither a node nor a mapping.  The values of a
\* tree being logged carry texts where the tree carries strings: VStr(text),
\* VEnum(class text, member text), VType(repr text), VDtype(attribute text).
RECURSIVE Repr(_)
Str(v) ==
    IF v.k = "str" THEN v.s
    ELSE IF v.k = "float" THEN v.s
    ELSE IF v.k = "int" THEN IntText(v.i)
    ELSE IF v.k = "bool" THEN IF v.b THEN <<"T", "r", "u", "e">> ELSE <<"F", "a", "l", "s", "e">>
    ELSE IF v.k = "none" THEN <<"N", "o", "n", "e">>
    ELSE IF v.k = "enum" THEN v.cls \o <<".">> \o v.value
    ELSE IF v.k = "type" THEN <<"<", "c", "l", "a", "s", "s", " ", "'">> \o v.name \o <<"'", ">">>
    ELSE IF v.k = "dtype" THEN <<"t", "o", "r", "c", "h", ".">> \o v.name
    ELSE <<"[">> \o Join([i \in 1..Len(v.items) |-> Repr(v.items[i])], <<",", " ">>) \o <<"]">>

\* repr(v), which a list's str applies to its elements
Repr(v) == IF v.k = "str" THEN <<"'">> \o v.s \o <<"'">> ELSE Str(v)

\* isinstance(v, (BaseArgs, dict))
IsArgsOrDict(v) == v.k \in {"node", "dict"}

\* list.sort(key=lambda x: x.lower()): the sort is stable, so an entry goes
\* behind the entries whose key is not greater than its own
InsertByLower(sorted, x) ==
    LET n == Cardinality({i \in 1..Len(sorted) : ~LessText(LowerText(x), LowerText(sorted[i]))})
    IN SubSeq(sorted, 1, n) \o <<x>> \o SubSeq(sorted, n + 1, Len(sorted))

RECURSIVE SortByLower(_)
SortByLower(result) ==
    IF Len(result) = 0 THEN <<>>
    ELSE InsertByLower(SortByLower(SubSeq(result, 1, Len(result) - 1)), result[Len(result)])

\* _iterate_args_recursively (lines 450-479): args is a node (read through
\* vars) or a mapping, prefix a text; the result is the list of entries, one
\* per key, a nested entry holding its block's lines joined by newlines
RECURSIVE IterateArgsRecursively(_, _)

\* lines 460-476: the entry appended for key k with value v
ArgsEntry(k, v, prefix) ==
    LET p == Len(prefix)
        suffix == Repeat(".", 48 - Len(k) - p)
        deeper == prefix \o Repeat(" ", 4)
    IN IF IsArgsOrDict(v)
       THEN IF v.k = "dict" /\ Len(v.keys) = 0
            THEN prefix \o k \o <<" ">> \o suffix \o <<" ">> \o <<"{", "}">>
            ELSE prefix \o k \o <<":", NewLine>>
                    \o Join(IterateArgsRecursively(v, deeper), <<NewLine>>)
       ELSE IF v.k = "list" /\ \A i \in 1..Len(v.items) : IsArgsOrDict(v.items[i])
       THEN prefix \o k \o <<":", NewLine>>
               \o Join([i \in 1..Len(v.items) |->
                            Join(IterateArgsRecursively(v.items[i], deeper), <<NewLine>>)],
                       <<NewLine>> \o Repeat(" ", p + 4) \o Repeat("*", 44 - p) \o <<NewLine>>)
       ELSE prefix \o k \o <<" ">> \o suffix \o <<" ">> \o Str(v)

IterateArgsRecursively(args, prefix) ==
    SortByLower([i \in 1..Len(args.keys) |-> ArgsEntry(args.keys[i], args.vals[i], prefix)])

\* ------------------------------------------------------------ log_args

\* the characters of the strings a resolved tree holds: field names, string
\* values, enum and class names
TextOf ==
    "/tmp/x" :> <<"/", "t", "m", "p", "/", "x">>
    @@ "0.1" :> <<"0", ".", "1">>
    @@ "0.9" :> <<"0", ".", "9">>
    @@ "0.95" :> <<"0", ".", "9", "5">>
    @@ "1e-05" :> <<"1", "e", "-", "0", "5">>
    @@ "1e-10" :> <<"1", "e", "-", "1", "0">>
    @@ "32.0" :> <<"3", "2", ".", "0">>
    @@ "<e>" :> <<"<", "e", ">">>
    @@ "<s>" :> <<"<", "s", ">">>
    @@ "ApexFusedAdam" :> <<"A", "p", "e", "x", "F", "u", "s", "e", "d", "A", "d", "a", "m">>
    @@ "AttentionImplementation" :> <<"A", "t", "t", "e", "n", "t", "i", "o", "n", "I", "m", "p", "l", "e", "m", "e", "n", "t", "a", "t", "i", "o", "n">>
    @@ "AutoModelForCausalLM" :> <<"A", "u", "t", "o", "M", "o", "d", "e", "l", "F", "o", "r", "C", "a", "u", "s", "a", "l", "L", "M">>
    @@ "AutoModelForSeq2SeqLM" :> <<"A", "u", "t", "o", "M", "o", "d", "e", "l", "F", "o", "r", "S", "e", "q", "2", "S", "e", "q", "L", "M">>
    @@ "DatasetArgs" :> <<"D", "a", "t", "a", "s", "e", "t", "A", "r", "g", "s">>
    @@ "DistributedArgs" :> <<"D", "i", "s", "t", "r", "i", "b", "u", "t", "e", "d", "A", "r", "g", "s">>
    @@ "DistributedBackend" :> <<"D", "i", "s", "t", "r", "i", "b", "u", "t", "e", "d", "B", "a", "c", "k", "e", "n", "d">>
    @@ "ExportArgs" :> <<"E", "x", "p", "o", "r", "t", "A", "r", "g", "s">>
    @@ "GPTMegatronForCausalLM" :> <<"G", "P", "T", "M", "e", "g", "a", "t", "r", "o", "n", "F", "o", "r", "C", "a", "u", "s", "a", "l", "L", "M">>
    @@ "GenerationParameters" :> <<"G", "e", "n", "e", "r", "a", "t", "i", "o", "n", "P", "a", "r", "a", "m", "e", "t", "e", "r", "s">>
    @@ "INFO" :> <<"I", "N", "F", "O">>
    @@ "InferenceArgs" :> <<"I", "n", "f", "e", "r", "e", "n", "c", "e", "A", "r", "g", "s">>
    @@ "LRSchedulerArgs" :> <<"L", "R", "S", "c", "h", "e", "d", "u", "l", "e", "r", "A", "r", "g", "s">>
    @@ "LoRAArgs" :> <<"L", "o", "R", "A", "A", "r", "g", "s">>
    @@ "LoadArgs" :> <<"L", "o", "a", "d", "A", "r", "g", "s">>
    @@ "LoggingArgs" :> <<"L", "o", "g", "g", "i", "n", "g", "A", "r", "g", "s">>
    @@ "ModelArgs" :> <<"M", "o", "d", "e", "l", "A", "r", "g", "s">>
    @@ "OptimizerArgs" :> <<"O", "p", "t", "i", "m", "i", "z", "e", "r", "A", "r", "g", "s">>
    @@ "PaddingSide" :> <<"P", "a", "d", "d", "i", "n", "g", "S", "i", "d", "e">>
    @@ "PromptTuningArgs" :> <<"P", "r", "o", "m", "p", "t", "T", "u", "n", "i", "n", "g", "A", "r", "g", "s">>
    @@ "PromptTuningInit" :> <<"P", "r", "o", "m", "p", "t", "T", "u", "n", "i", "n", "g", "I", "n", "i", "t">>
    @@ "RANDOM" :> <<"R", "A", "N", "D", "O", "M">>
    @@ "RandomArgs" :> <<"R", "a", "n", "d", "o", "m", "A", "r", "g", "s">>
    @@ "SST2" :> <<"S", "S", "T", "2">>
    @@ "SaveArgs" :> <<"S", "a", "v", "e", "A", "r", "g", "s">>
    @@ "TEXT" :> <<"T", "E", "X", "T">>
    @@ "TokenizerArgs" :> <<"T", "o", "k", "e", "n", "i", "z", "e", "r", "A", "r", "g", "s">>
    @@ "TrainingArgs" :> <<"T", "r", "a", "i", "n", "i", "n", "g", "A", "r", "g", "s">>
    @@ "TrainingParameters" :> <<"T", "r", "a", "i", "n", "i", "n", "g", "P", "a", "r", "a", "m", "e", "t", "e", "r", "s">>
    @@ "TuningArgs" :> <<"T", "u", "n", "i", "n", "g", "A", "r", "g", "s">>
    @@ "TuningMethod" :> <<"T", "u", "n", "i", "n", "g", "M", "e", "t", "h", "o", "d">>
    @@ "__input__" :> <<"_", "_", "i", "n", "p", "u", "t", "_", "_">>
    @@ "__output__" :> <<"_", "_", "o", "u", "t", "p", "u", "t", "_", "_">>
    @@ "additional_special_tokens" :> <<"a", "d", "d", "i", "t", "i", "o", "n", "a", "l", "_", "s", "p", "e", "c", "i", "a", "l", "_", "t", "o", "k", "e", "n", "s">>
    @@ "aim_repo" :> <<"a", "i", "m", "_", "r", "e", "p", "o">>
    @@ "attention_implementation" :> <<"a", "t", "t", "e", "n", "t", "i", "o", "n", "_", "i", "m", "p", "l", "e", "m", "e", "n", "t", "a", "t", "i", "o", "n">>
    @@ "batch_size" :> <<"b", "a", "t", "c", "h", "_", "s", "i", "z", "e">>
    @@ "batch_size_per_gpu" :> <<"b", "a", "t", "c", "h", "_", "s", "i", "z", "e", "_", "p", "e", "r", "_", "g", "p", "u">>
    @@ "betas" :> <<"b", "e", "t", "a", "s">>
    @@ "bfloat16" :> <<"b", "f", "l", "o", "a", "t", "1", "6">>
    @@ "class_args" :> <<"c", "l", "a", "s", "s", "_", "a", "r", "g", "s">>
    @@ "class_name" :> <<"c", "l", "a", "s", "s", "_", "n", "a", "m", "e">>
    @@ "contiguous_gradients" :> <<"c", "o", "n", "t", "i", "g", "u", "o", "u", "s", "_", "g", "r", "a", "d", "i", "e", "n", "t", "s">>
    @@ "cosine" :> <<"c", "o", "s", "i", "n", "e">>
    @@ "cpu_offload" :> <<"c", "p", "u", "_", "o", "f", "f", "l", "o", "a", "d">>
    @@ "d1" :> <<"d", "1">>
    @@ "d2" :> <<"d", "2">>
    @@ "data_name" :> <<"d", "a", "t", "a", "_", "n", "a", "m", "e">>
    @@ "data_sampling_ratio" :> <<"d", "a", "t", "a", "_", "s", "a", "m", "p", "l", "i", "n", "g", "_", "r", "a", "t", "i", "o">>
    @@ "datasets" :> <<"d", "a", "t", "a", "s", "e", "t", "s">>
    @@ "distributed_args" :> <<"d", "i", "s", "t", "r", "i", "b", "u", "t", "e", "d", "_", "a", "r", "g", "s">>
    @@ "distributed_backend" :> <<"d", "i", "s", "t", "r", "i", "b", "u", "t", "e", "d", "_", "b", "a", "c", "k", "e", "n", "d">>
    @@ "do_sample" :> <<"d", "o", "_", "s", "a", "m", "p", "l", "e">>
    @@ "dtype" :> <<"d", "t", "y", "p", "e">>
    @@ "eps" :> <<"e", "p", "s">>
    @@ "eval_during_training" :> <<"e", "v", "a", "l", "_", "d", "u", "r", "i", "n", "g", "_", "t", "r", "a", "i", "n", "i", "n", "g">>
    @@ "eval_interval" :> <<"e", "v", "a", "l", "_", "i", "n", "t", "e", "r", "v", "a", "l">>
    @@ "experiment_name" :> <<"e", "x", "p", "e", "r", "i", "m", "e", "n", "t", "_", "n", "a", "m", "e">>
    @@ "export_path" :> <<"e", "x", "p", "o", "r", "t", "_", "p", "a", "t", "h">>
    @@ "exported" :> <<"e", "x", "p", "o", "r", "t", "e", "d">>
    @@ "flash" :> <<"f", "l", "a", "s", "h">>
    @@ "float16" :> <<"f", "l", "o", "a", "t", "1", "6">>
    @@ "float32" :> <<"f", "l", "o", "a", "t", "3", "2">>
    @@ "full_finetuning" :> <<"f", "u", "l", "l", "_", "f", "i", "n", "e", "t", "u", "n", "i", "n", "g">>
    @@ "generation_parameters" :> <<"g", "e", "n", "e", "r", "a", "t", "i", "o", "n", "_", "p", "a", "r", "a", "m", "e", "t", "e", "r", "s">>
    @@ "gpt" :> <<"g", "p", "t">>
    @@ "gradient_accumulation_steps" :> <<"g", "r", "a", "d", "i", "e", "n", "t", "_", "a", "c", "c", "u", "m", "u", "l", "a", "t", "i", "o", "n", "_", "s", "t", "e", "p", "s">>
    @@ "gradient_checkpointing" :> <<"g", "r", "a", "d", "i", "e", "n", "t", "_", "c", "h", "e", "c", "k", "p", "o", "i", "n", "t", "i", "n", "g">>
    @@ "ignore_sampling_proportion_for_validation" :> <<"i", "g", "n", "o", "r", "e", "_", "s", "a", "m", "p", "l", "i", "n", "g", "_", "p", "r", "o", "p", "o", "r", "t", "i", "o", "n", "_", "f", "o", "r", "_", "v", "a", "l", "i", "d", "a", "t", "i", "o", "n">>
    @@ "inference" :> <<"i", "n", "f", "e", "r", "e", "n", "c", "e">>
    @@ "init text" :> <<"i", "n", "i", "t", " ", "t", "e", "x", "t">>
    @@ "input_format" :> <<"i", "n", "p", "u", "t", "_", "f", "o", "r", "m", "a", "t">>
    @@ "iteration" :> <<"i", "t", "e", "r", "a", "t", "i", "o", "n">>
    @@ "left" :> <<"l", "e", "f", "t">>
    @@ "load_args" :> <<"l", "o", "a", "d", "_", "a", "r", "g", "s">>
    @@ "load_path" :> <<"l", "o", "a", "d", "_", "p", "a", "t", "h">>
    @@ "log_interval" :> <<"l", "o", "g", "_", "i", "n", "t", "e", "r", "v", "a", "l">>
    @@ "logging_args" :> <<"l", "o", "g", "g", "i", "n", "g", "_", "a", "r", "g", "s">>
    @@ "logging_level" :> <<"l", "o", "g", "g", "i", "n", "g", "_", "l", "e", "v", "e", "l">>
    @@ "lora" :> <<"l", "o", "r", "a">>
    @@ "lora_alpha" :> <<"l", "o", "r", "a", "_", "a", "l", "p", "h", "a">>
    @@ "lora_args" :> <<"l", "o", "r", "a", "_", "a", "r", "g", "s">>
    @@ "lora_dropout" :> <<"l", "o", "r", "a", "_", "d", "r", "o", "p", "o", "u", "t">>
    @@ "lora_rank" :> <<"l", "o", "r", "a", "_", "r", "a", "n", "k">>
    @@ "lr" :> <<"l", "r">>
    @@ "lr_schedule" :> <<"l", "r", "_", "s", "c", "h", "e", "d", "u", "l", "e">>
    @@ "lr_scheduler_args" :> <<"l", "r", "_", "s", "c", "h", "e", "d", "u", "l", "e", "r", "_", "a", "r", "g", "s">>
    @@ "max_input_tokens" :> <<"m", "a", "x", "_", "i", "n", "p", "u", "t", "_", "t", "o", "k", "e", "n", "s">>
    @@ "max_new_tokens" :> <<"m", "a", "x", "_", "n", "e", "w", "_", "t", "o", "k", "e", "n", "s">>
    @@ "max_output_tokens" :> <<"m", "a", "x", "_", "o", "u", "t", "p", "u", "t", "_", "t", "o", "k", "e", "n", "s">>
    @@ "model_args" :> <<"m", "o", "d", "e", "l", "_", "a", "r", "g", "s">>
    @@ "model_class" :> <<"m", "o", "d", "e", "l", "_", "c", "l", "a", "s", "s">>
    @@ "model_name" :> <<"m", "o", "d", "e", "l", "_", "n", "a", "m", "e">>
    @@ "num_training_steps" :> <<"n", "u", "m", "_", "t", "r", "a", "i", "n", "i", "n", "g", "_", "s", "t", "e", "p", "s">>
    @@ "num_virtual_tokens" :> <<"n", "u", "m", "_", "v", "i", "r", "t", "u", "a", "l", "_", "t", "o", "k", "e", "n", "s">>
    @@ "num_warmup_steps" :> <<"n", "u", "m", "_", "w", "a", "r", "m", "u", "p", "_", "s", "t", "e", "p", "s">>
    @@ "optimizer_args" :> <<"o", "p", "t", "i", "m", "i", "z", "e", "r", "_", "a", "r", "g", "s">>
    @@ "out" :> <<"o", "u", "t">>
    @@ "output_dir" :> <<"o", "u", "t", "p", "u", "t", "_", "d", "i", "r">>
    @@ "output_format" :> <<"o", "u", "t", "p", "u", "t", "_", "f", "o", "r", "m", "a", "t">>
    @@ "overlap_comm" :> <<"o", "v", "e", "r", "l", "a", "p", "_", "c", "o", "m", "m">>
    @@ "padding_side" :> <<"p", "a", "d", "d", "i", "n", "g", "_", "s", "i", "d", "e">>
    @@ "prompt_tuning" :> <<"p", "r", "o", "m", "p", "t", "_", "t", "u", "n", "i", "n", "g">>
    @@ "prompt_tuning_args" :> <<"p", "r", "o", "m", "p", "t", "_", "t", "u", "n", "i", "n", "g", "_", "a", "r", "g", "s">>
    @@ "prompt_tuning_init" :> <<"p", "r", "o", "m", "p", "t", "_", "t", "u", "n", "i", "n", "g", "_", "i", "n", "i", "t">>
    @@ "prompt_tuning_init_text" :> <<"p", "r", "o", "m", "p", "t", "_", "t", "u", "n", "i", "n", "g", "_", "i", "n", "i", "t", "_", "t", "e", "x", "t">>
    @@ "random_args" :> <<"r", "a", "n", "d", "o", "m", "_", "a", "r", "g", "s">>
    @@ "right" :> <<"r", "i", "g", "h", "t">>
    @@ "save_args" :> <<"s", "a", "v", "e", "_", "a", "r", "g", "s">>
    @@ "save_interval" :> <<"s", "a", "v", "e", "_", "i", "n", "t", "e", "r", "v", "a", "l">>
    @@ "save_path" :> <<"s", "a", "v", "e", "_", "p", "a", "t", "h">>
    @@ "seed" :> <<"s", "e", "e", "d">>
    @@ "stage" :> <<"s", "t", "a", "g", "e">>
    @@ "temperature" :> <<"t", "e", "m", "p", "e", "r", "a", "t", "u", "r", "e">>
    @@ "tokenizer_args" :> <<"t", "o", "k", "e", "n", "i", "z", "e", "r", "_", "a", "r", "g", "s">>
    @@ "top_k" :> <<"t", "o", "p", "_", "k">>
    @@ "top_p" :> <<"t", "o", "p", "_", "p">>
    @@ "torch" :> <<"t", "o", "r", "c", "h">>
    @@ "training" :> <<"t", "r", "a", "i", "n", "i", "n", "g">>
    @@ "training_parameters" :> <<"t", "r", "a", "i", "n", "i", "n", "g", "_", "p", "a", "r", "a", "m", "e", "t", "e", "r", "s">>
    @@ "trust_remote_code" :> <<"t", "r", "u", "s", "t", "_", "r", "e", "m", "o", "t", "e", "_", "c", "o", "d", "e">>
    @@ "tuning_args" :> <<"t", "u", "n", "i", "n", "g", "_", "a", "r", "g", "s">>
    @@ "tuning_method" :> <<"t", "u", "n", "i", "n", "g", "_", "m", "e", "t", "h", "o", "d">>
    @@ "weight_decay" :> <<"w", "e", "i", "g", "h", "t", "_", "d", "e", "c", "a", "y">>

\* the tree as log_args reads it: every string as its text
RECURSIVE LogTree(_)
LogTree(v) ==
    IF v.k = "node" THEN VNode(v.cls, [i \in 1..Len(v.keys) |-> TextOf[v.keys[i]]],
                               [i \in 1..Len(v.vals) |-> LogTree(v.vals[i])])
    ELSE IF v.k = "dict" THEN VDict([i \in 1..Len(v.keys) |-> TextOf[v.keys[i]]],
                                    [i \in 1..Len(v.vals) |-> LogTree(v.vals[i])])
    ELSE IF v.k = "list" THEN VList([i \in 1..Len(v.items) |-> LogTree(v.items[i])])
    ELSE IF v.k \in {"str", "float"} THEN [v EXCEPT !.s = TextOf[v.s]]
    ELSE IF v.k = "enum" THEN VEnum(TextOf[v.cls], TextOf[v.value])
    ELSE IF v.k \in {"type", "dtype"} THEN [v EXCEPT !.name = TextOf[v.name]]
    ELSE v

\* the banners of lines 482 and 487
Header ==
    <<"-", "-", "-", "-", "-", "-", "-", "-", "-", "-", "-", "-", "-", "-", "-", "-",
      "-", "-", "-", "-", "-", "-", "-", "-", " ", "a", "r", "g", "u", "m", "e", "n",
      "t", "s", " ", "-", "-", "-", "-", "-", "-", "-", "-", "-", "-", "-", "-", "-",
      "-", "-", "-", "-", "-", "-", "-", "-", "-", "-", "-">>
Footer ==
    <<"-", "-", "-", "-", "-", "-", "-", "-", "-", "-", "-", "-", "-", "-", "-", "-",
      "-", "-", "-", "-", " ", "e", "n", "d", " ", "o", "f", " ", "a", "r", "g", "u",
      "m", "e", "n", "t", "s", " ", "-", "-", "-", "-", "-", "-", "-", "-", "-", "-",
      "-", "-", "-", "-", "-", "-", "-", "-", "-", "-", "-">>

\* line 481: f"total GPUs = {get_world_size()}"
GpuLine(worldSize) ==
    <<"t", "o", "t", "a", "l", " ", "G", "P", "U", "s", " ", "=", " ">> \o IntText(worldSize)

\* the world sizes get_world_size is tried with
WorldSizes == {1, 8}

\* log_rank_0(logging.INFO, msg) in the process that writes the log: the
\* message is appended to the log
LogRank0(lg, msg) == Append(lg, msg)

\* lines 483-486: every entry is split at its newlines and logged line by line
RECURSIVE LogEntries(_, _)
LogLines(lg, lines) == lg \o [i \in 1..Len(lines) |-> LogRank0(<<>>, lines[i])[1]]
LogEntries(lg, entries) ==
    IF Len(entries) = 0 THEN lg
    ELSE LogEntries(LogLines(lg, SplitLines(entries[1])), Tail(entries))

\* lines 481-487 with the banner written before the GPU count
LogArgsBannerFirst(lg, args, worldSize) ==
    LogRank0(LogEntries(LogRank0(LogRank0(lg, Header), GpuLine(worldSize)),
                        IterateArgsRecursively(args, <<>>)),
             Footer)

\* log_args, lines 481-487
LogArgs(lg, args, worldSize) ==
    LogRank0(LogEntries(LogRank0(LogRank0(lg, GpuLine(worldSize)), Header),
                        IterateArgsRecursively(args, <<>>)),
             Footer)

\* ------------------------------------------------------------ get_args

\* the file format get_args infers from the config path (lines 427-432); None
\* when neither branch is taken
FileExtension(suffix) ==
    IF suffix = "json" THEN Some("json")
    ELSE IF suffix \in {"yaml", "yml"} THEN Some("yaml")
    ELSE None

\* suffix is the config path's ending, ibm whether ibm_models imports;
\* worldSize is what get_world_size returns when log_args asks
GetArgs(suffix, ibm) ==
    LET ext == FileExtension(suffix)
        built == ModeArgs(mode, raw, ibm)
    IN /\ pc = "call" /\ op = "get_args"
       /\ pc' = "done"
       /\ IF ext = None
          THEN \* config is never bound: line 434 raises
               /\ outcome' = "UnboundLocalError: config"
               /\ node' = None
               /\ UNCHANGED <<argsFileExtension, log>>
          ELSE /\ argsFileExtension' = ext
               /\ outcome' = built.err
               /\ node' = built.node
               /\ IF built.err # NoError
                  THEN \* line 434 raises: lines 436-439 do not run
                       UNCHANGED log
                  ELSE \E worldSize \in WorldSizes :
                        log' = LogArgs(log, LogTree(ArgsValue(mode, Val(built.node))), worldSize)
       /\ UNCHANGED <<op, mode, raw, dsVars, tdVars, laVars>>

ConstructTuningArgs ==
    LET built == TuningArgs(raw)
    IN /\ pc = "call" /\ op = "TuningArgs"
       /\ pc' = "done"
       /\ outcome' = built.err
       /\ node' = built.node
       /\ UNCHANGED <<op, mode, raw, argsFileExtension, log, dsVars, tdVars, laVars>>

ConstructTrainingParameters ==
    LET built == TrainingParameters(raw)
    IN /\ pc = "call" /\ op = "TrainingParameters"
       /\ pc' = "done"
       /\ outcome' = built.err
       /\ node' = built.node
       /\ UNCHANGED <<op, mode, raw, argsFileExtension, log, dsVars, tdVars, laVars>>

\* the process before a call: the operation and its raw input are chosen, the
\* format global is still unset
Init ==
    /\ pc = "call" /\ outcome = NoError /\ node = None /\ argsFileExtension = None
    /\ log = <<>>
    /\ \/ /\ op = "get_args" /\ mode \in Modes /\ raw \in RawConfigs(mode)
       \/ /\ op = "TuningArgs" /\ mode = "none" /\ raw \in RawTuningArgs
       \/ /\ op = "TrainingParameters" /\ mode = "none" /\ raw \in RawTrainingParameters
    /\ IdleDeepspeed /\ IdleToDict /\ IdleLogArgs

Next ==
    \/ \E suffix \in ConfigSuffixes, ibm \in BOOLEAN : GetArgs(suffix, ibm)
    \/ ConstructTuningArgs
    \/ ConstructTrainingParameters

Spec == Init /\ [][Next]_vars

\* ------------------------------------------------- resolution, then derivation

\* an Optional section as the attribute Python reads: None or the section
Unwrap(o) == IF o = None THEN None ELSE Val(o)

\* the TrainingArgs that get_args returned, as the object get_deepspeed_config
\* reads its attributes from
TrainingArgsObject(n) ==
    [n EXCEPT !.model_args = Unwrap(@), !.tuning_args = Unwrap(@), !.save_args = Unwrap(@),
              !.load_args = Unwrap(@), !.training_parameters = Unwrap(@)]

\* get_deepspeed_config called with the tree a training-mode get_args returned
GetDeepspeedConfigOfResolved ==
    /\ pc = "done" /\ op = "get_args" /\ mode = "training" /\ outcome = NoError
    /\ GetDeepspeedConfig(TrainingArgsObject(Val(node)))

\* a process about to resolve a training config, its deepspeed cache unset
InitResolveDerive ==
    /\ pc = "call" /\ outcome = NoError /\ node = None /\ argsFileExtension = None
    /\ log = <<>>
    /\ op = "get_args" /\ mode = "training" /\ raw \in RawConfigs("training")
    /\ dsCache = None
    /\ dsTable = MixedPrecisionConfig
    /\ dsCall = None
    /\ dsHist = [calls |-> 0, raised |-> 0, published |-> 0, first |-> None]
    /\ th = None
    /\ IdleToDict /\ IdleLogArgs

NextResolveDerive ==
    \/ \E suffix \in ConfigSuffixes, ibm \in BOOLEAN : GetArgs(suffix, ibm)
    \/ GetDeepspeedConfigOfResolved

SpecResolveDerive == InitResolveDerive /\ [][NextResolveDerive]_vars

\* ------------------------------------------------------------ log_args inputs

\* most keys of a mapping handed to _iterate_args_recursively
MaxKeys == 3

\* field names: one a prefix of the others, continued by a digit, an
\* underscore or a hyphen, in both cases, and an unrelated one
LogNames ==
    {<<"l", "r">>, <<"l", "r", "2">>, <<"l", "r", "_", "t">>, <<"L", "R", "-", "x">>, <<"m">>}

\* a nested section
LogSection == VDict(<< <<"m">> >>, <<VInt(1)>>)

\* a scalar, the empty mapping, a nested section, a list of sections
LogValues == {VInt(1), VDict(<<>>, <<>>), LogSection, VList(<<LogSection, LogSection>>)}

\* the key lists of a mapping: keys are distinct
LogKeyLists(n) == {ks \in [1..n -> LogNames] : \A i, j \in 1..n : ks[i] = ks[j] => i = j}

\* the mappings of n keys rendered, as a dict and as a node read through vars
LogMappings(n) ==
    UNION {{VDict(ks, vs), VNode("BaseArgs", ks, vs)} :
            ks \in LogKeyLists(n), vs \in [1..n -> LogValues]}

\* the prefixes of the top level and of the first nested level
LogPrefixes == {Repeat(" ", 0), Repeat(" ", 4)}

\* one call of _iterate_args_recursively, top-level or recursive
CallIterateArgs ==
    /\ laOut = None
    /\ laOut' = Some(IterateArgsRecursively(laIn.args, laIn.prefix))
    /\ UNCHANGED <<laIn, argsVars, dsVars, tdVars>>

InitLogArgs ==
    /\ IdleArgs /\ IdleDeepspeed /\ IdleToDict
    /\ laIn \in [args : UNION {LogMappings(n) : n \in 1..MaxKeys}, prefix : LogPrefixes]
    /\ laOut = None

NextLogArgs == CallIterateArgs

SpecLogArgs == InitLogArgs /\ [][NextLogArgs]_vars

\* =================================================================== claims
\* Claims about construction and resolution, checked under Spec.

Resolved == pc = "done" /\ outcome = NoError

\* the TuningArgs node of the state's result, when the operation built one
HasTuningNode ==
    /\ Resolved
    /\ \/ op = "TuningArgs"
       \/ op = "get_args" /\ Val(node).tuning_args # None
TuningNode == IF op = "TuningArgs" THEN Val(node) ELSE Val(Val(node).tuning_args)

\* C1: in every resolved tree prompt_tuning_args is populated iff
\* tuning_method = prompt_tuning and lora_args is populated iff
\* tuning_method = lora (so prompt_tuning without prompt_tuning_args, and lora
\* without lora_args, fail to resolve).
C1_SubConfigMatchesTag ==
    HasTuningNode =>
        /\ (TuningNode.prompt_tuning_args # None) <=> (TuningNode.tuning_method = Some("prompt_tuning"))
        /\ (TuningNode.lora_args # None) <=> (TuningNode.tuning_method = Some("lora"))

\* C2: constructing TuningArgs with both sub-configs supplied fails whatever
\* the tuning_method, full_finetuning with either sub-config fails, and no
\* resolved tree has both sub-configs populated.
C2_NeverTwoSubConfigs ==
    /\ (pc = "done" /\ op = "TuningArgs") =>
          /\ (raw.prompt_tuning_args # None /\ raw.lora_args # None) => outcome # NoError
          /\ (raw.tuning_method = Some("full_finetuning")
                /\ (raw.prompt_tuning_args # None \/ raw.lora_args # None)) => outcome # NoError
    /\ HasTuningNode =>
          ~(TuningNode.prompt_tuning_args # None /\ TuningNode.lora_args # None)

\* a TuningArgs construction that got two valid sub-configs under the
\* prompt_tuning tag and was refused for the second one
C2_Witness ==
    /\ pc = "done" /\ op = "TuningArgs"
    /\ raw.tuning_method = Some("prompt_tuning")
    /\ raw.prompt_tuning_args = Some(GoodPromptTuning)
    /\ raw.lora_args = Some(GoodLoRA)
    /\ outcome = "lora_args should not be specified with promt_tuning"

\* C3: resolution fails whenever a mandatory top-level section of the mode is
\* absent: training without save_args or without training_parameters,
\* inference without generation_parameters or without output_dir, export
\* without load_args or without export_path.
C3_MandatorySections ==
    (pc = "done" /\ op = "get_args") =>
        /\ (mode = "training" /\ raw.save_args = None) => outcome # NoError
        /\ (mode = "training" /\ raw.training_parameters = None) => outcome # NoError
        /\ (mode = "inference" /\ raw.generation_parameters = None) => outcome # NoError
        /\ (mode = "inference" /\ raw.output_dir = None) => outcome # NoError
        /\ (mode = "export" /\ raw.load_args = None) => outcome # NoError
        /\ (mode = "export" /\ raw.export_path = None) => outcome # NoError

\* the errors the dataset checks raise
DatasetErrors ==
    {"datasets cannot be an empty list",
     "data_name should be unique for each dataset",
     "data_sampling_ratio should be a positive integer",
     "dataset class_name cannot be None",
     "data_sampling_ratio cannot be None",
     "data_name cannot be None"}

SharedName(l) ==
    \E i, j \in 1..Len(l) : i # j /\ l[i].data_name # None /\ l[i].data_name = l[j].data_name
NonPositiveRatio(l) ==
    \E i \in 1..Len(l) : l[i].data_sampling_ratio # None /\ Val(l[i].data_sampling_ratio) <= 0
GoodEntry(e) ==
    /\ e.class_name # None /\ e.data_name # None
    /\ e.data_sampling_ratio # None /\ Val(e.data_sampling_ratio) > 0

\* C6: in training and inference modes resolution fails when the datasets
\* list is empty, when two entries share a data_name, and when an entry has a
\* data_sampling_ratio <= 0; a singleton list whose entry has class_name,
\* data_name and a positive ratio raises none of the dataset errors.
C6_DatasetChecks ==
    (pc = "done" /\ op = "get_args" /\ mode \in {"training", "inference"}) =>
        /\ Len(raw.datasets) = 0 => outcome # NoError
        /\ SharedName(raw.datasets) => outcome # NoError
        /\ NonPositiveRatio(raw.datasets) => outcome # NoError
        /\ (Len(raw.datasets) = 1 /\ GoodEntry(raw.datasets[1])) => outcome \notin DatasetErrors

\* two well-formed entries named alike are refused by the uniqueness check
C6_Witness ==
    /\ pc = "done" /\ op = "get_args" /\ mode = "training"
    /\ Len(raw.datasets) = 2 /\ SharedName(raw.datasets)
    /\ \A i \in 1..2 : GoodEntry(raw.datasets[i])
    /\ outcome = "data_name should be unique for each dataset"

\* C7: with num_training_steps and batch_size_per_gpu set, constructing
\* TrainingParameters fails on a missing eval_interval exactly when
\* eval_during_training is true, its default included; with
\* eval_during_training = false a missing eval_interval is accepted.
C7_EvalIntervalRule ==
    (pc = "done" /\ op = "TrainingParameters"
        /\ raw.num_training_steps # None /\ raw.batch_size_per_gpu # None) =>
        /\ (raw.eval_interval = None /\ raw.eval_during_training \in {None, Some(TRUE)})
              <=> outcome = "eval_interval cannot be None"
        /\ (raw.eval_interval = None /\ raw.eval_during_training = Some(FALSE))
              => outcome = NoError
        /\ raw.eval_interval # None => outcome = NoError

\* eval_during_training left at its default and no eval_interval: refused
C7_Witness ==
    /\ pc = "done" /\ op = "TrainingParameters"
    /\ raw.num_training_steps # None /\ raw.batch_size_per_gpu # None
    /\ raw.eval_during_training = None /\ raw.eval_interval = None
    /\ outcome = "eval_interval cannot be None"

\* Claims about get_deepspeed_config.

\* C4: in a sequential series of calls the config is computed and assigned
\* by the first successful call only; once the cache is set no call reassigns
\* it and every later call returns the cached value without raising,
\* whatever its args.  Checked under SpecDeepspeed.
C4_ComputedOnce ==
    [][ /\ dsHist'.published <= 1
        /\ dsCache # None =>
              /\ dsCache' = dsCache
              /\ dsHist'.published = dsHist.published
              /\ dsHist'.calls > dsHist.calls =>
                    (dsCall'.raised = NoError /\ dsCall'.value = dsCache) ]_vars

\* a later call whose own args derive another config got the cached one
C4_Witness ==
    /\ dsHist.calls >= 2
    /\ dsCall.raised = NoError
    /\ dsCall.args \in GoodDsArgs
    /\ dsCall.args # Val(dsHist.first)
    /\ dsCall.value = dsCache
    /\ dsCall.value # Some(DeriveConfig(dsCall.args, dsTable))

\* C5: when threads call concurrently while the cache is absent, the config
\* is published exactly once and every caller returns that one value.
\* Checked under SpecThreads.
C5_OneCriticalSection ==
    /\ dsHist.published <= 1
    /\ \A t, u \in Threads :
          (th[t].pc = "done" /\ th[u].pc = "done") => th[t].ret = th[u].ret

\* C10: the published config matches the derivation's reference, field by
\* field, for the args of the first successful derivation, and the dtype
\* table keeps its initial value.  Checked under SpecDeepspeed.
C10_ReferenceDerivation ==
    /\ dsTable = [fp32 |-> <<>>,
                  fp16 |-> [fp16 |-> [enabled |-> TRUE, auto_cast |-> TRUE]],
                  bf16 |-> [bf16 |-> [enabled |-> TRUE]]]
    /\ dsCache # None =>
          LET cfg == Val(dsCache)
              z == cfg.zero_optimization
              d == Val(dsHist.first).distributed_args
              dt == Val(dsHist.first).mixed_precision_args.dtype
              comm == d.communication_dtype
              cpu == [device |-> "cpu", pin_memory |-> TRUE]
          IN /\ ("fp16" \in DOMAIN cfg) <=> (dt = "fp16")
             /\ ("bf16" \in DOMAIN cfg) <=> (dt = "bf16")
             /\ "fp32" \notin DOMAIN cfg
             /\ dt = "fp16" => cfg.fp16 = [enabled |-> TRUE, auto_cast |-> TRUE]
             /\ dt = "bf16" => cfg.bf16 = [enabled |-> TRUE]
             /\ ("communication_data_type" \in DOMAIN cfg) <=> (comm # None)
             /\ ("data_types" \in DOMAIN cfg) <=> (comm # None)
             /\ comm # None =>
                   /\ cfg.communication_data_type = Val(comm)
                   /\ cfg.data_types = [grad_accum_dtype |-> Val(comm)]
             /\ z.stage = d.stage
             /\ z.overlap_comm = d.overlap_comm
             /\ z.contiguous_gradients = d.contiguous_gradients
             /\ z.zero_hpz_partition_size = d.zero_hpz_partition_size
             /\ z.zero_quantized_weights = d.zero_quantized_weights
             /\ z.zero_quantized_gradients = d.zero_quantized_gradients
             /\ ("offload_param" \in DOMAIN z) <=> d.cpu_offload
             /\ ("offload_optimizer" \in DOMAIN z) <=> d.cpu_offload
             /\ d.cpu_offload => (z.offload_param = cpu /\ z.offload_optimizer = cpu)

\* the spec's scenario: bf16 with CPU offload, and a communication dtype set
C10_Witness ==
    /\ dsCache # None
    /\ Val(dsHist.first).mixed_precision_args.dtype = "bf16"
    /\ Val(dsHist.first).distributed_args.cpu_offload
    /\ Val(dsHist.first).distributed_args.communication_dtype # None
    /\ "offload_optimizer" \in DOMAIN Val(dsCache).zero_optimization
    /\ "data_types" \in DOMAIN Val(dsCache)

\* Claims about to_dict, checked under SpecToDict.

\* C8: to_dict is idempotent on every resolved tree: the conversion applied
\* to its own output, read as a node without nested types, returns that
\* output.
C8_ToDictIdempotent ==
    (tdOut # None /\ tdIn.cls \in RootClasses) =>
        BaseToDict(Val(tdOut).result) = Val(tdOut).result

\* C9: to_dict keeps the keys and converts each field value by kind: a nested
\* node to its own to_dict result, a list of nodes to the list of their
\* results in order, an Enum to its value, a class to its name, any other
\* value (a list of plain values included) to itself; the node it was called
\* on keeps its fields.  (The dtype key of ModelArgs, which ModelArgs.to_dict
\* overrides, is left out of the statement.)
C9_ConvertedByKind ==
    tdOut # None =>
        LET out == Val(tdOut).result
        IN /\ Val(tdOut).self = tdIn
           /\ out.k = "dict" /\ out.keys = tdIn.keys /\ Len(out.vals) = Len(tdIn.vals)
           /\ \A i \in 1..Len(tdIn.vals) :
                 LET v == tdIn.vals[i]
                     o == out.vals[i]
                 IN IF tdIn.cls = "ModelArgs" /\ tdIn.keys[i] = "dtype" THEN TRUE
                    ELSE IF v.k = "node" THEN o = ToDict(v)
                    ELSE IF v.k = "list" /\ \A e \in 1..Len(v.items) : v.items[e].k = "node"
                    THEN /\ o.k = "list" /\ Len(o.items) = Len(v.items)
                         /\ \A e \in 1..Len(v.items) : o.items[e] = ToDict(v.items[e])
                    ELSE IF v.k = "enum" THEN o = [k |-> "str", s |-> v.value]
                    ELSE IF v.k = "type" THEN o = [k |-> "str", s |-> v.name]
                    ELSE o = v

\* ------------------------------------------------------------
\* Claims about the order of validation, checked under Spec.

\* what the root's own _check_not_None would report for the raw config: the
\* first mandatory section or field of the mode that the config leaves out
ParentPresenceError ==
    IF mode = "training"
    THEN CheckNotNone(<< <<raw.model_args, "model_args">>,
                         <<raw.tuning_args, "tuning_args">>,
                         <<raw.save_args, "save_args">> >>)
    ELSE IF mode = "inference"
    THEN CheckNotNone(<< <<raw.model_args, "model_args">>,
                         <<raw.tuning_args, "tuning_args">>,
                         <<raw.generation_parameters, "generation_parameters">>,
                         <<raw.output_dir, "output_dir">> >>)
    ELSE CheckNotNone(<< <<raw.model_args, "model_args">>,
                         <<raw.tuning_args, "tuning_args">>,
                         <<raw.load_args, "load_args">>,
                         <<raw.export_path, "export_path">> >>)

\* the raw config breaks a rule internal to a child section: a model section
\* without model_name, or a dataset entry whose ratio is not positive
ChildRuleViolated ==
    \/ raw.model_args # None /\ Val(raw.model_args).model_name = None
    \/ /\ mode # "export"
       /\ \E i \in 1..Len(raw.datasets) :
            /\ raw.datasets[i].class_name # None /\ raw.datasets[i].data_name # None
            /\ Val(raw.datasets[i].data_sampling_ratio) <= 0

\* C11: validation is fail-fast, parent first: when a raw config violates both
\* a presence rule of the root and a rule inside a child section, get_args
\* fails with the root's presence error.
C11_ParentFirst ==
    (/\ pc = "done" /\ op = "get_args" /\ argsFileExtension # None
     /\ ParentPresenceError # NoError
     /\ ChildRuleViolated)
        => outcome = ParentPresenceError

\* ------------------------------------------------------------
\* Claims about the rendering, checked under SpecLogArgs.

\* entry e of a level rendered under a prefix of length p is the entry of key k
IsEntryOf(e, k, p) ==
    /\ Len(e) > p + Len(k)
    /\ SubSeq(e, p + 1, p + Len(k)) = k
    /\ e[p + Len(k) + 1] \in {" ", ":"}

\* the place of key k's entry in the returned list
EntryIndex(k) ==
    CHOOSE e \in 1..Len(Val(laOut)) : IsEntryOf(Val(laOut)[e], k, Len(laIn.prefix))

\* C12: at every nesting level the entries of the rendering (scalar lines,
\* empty-mapping lines, nested blocks) appear in case-insensitive ascending
\* order of their field names, whatever the field names are.
C12_SortedByFieldName ==
    laOut # None =>
        \A i, j \in 1..Len(laIn.args.keys) :
            LessText(LowerText(laIn.args.keys[i]), LowerText(laIn.args.keys[j]))
                => EntryIndex(laIn.args.keys[i]) < EntryIndex(laIn.args.keys[j])

\* ------------------------------------------------------------
\* Claims about the log get_args writes, checked under Spec.

\* a line that reports the GPU count
IsGpuLine(l) == Len(l) > 13 /\ SubSeq(l, 1, 13) = SubSeq(GpuLine(0), 1, 13)

\* the positions of the log between the header and the footer
ArgumentLines == 3..(Len(log) - 1)

CallMade == dsHist'.calls = dsHist.calls + 1

\* C15: a get_deepspeed_config call that raises while deriving leaves the
\* cache absent and unchanged and publishes nothing, not even a partly built
\* config, and the call after it derives again, from its own args.
C15_RaiseLeavesCacheAbsent ==
    [][ /\ (CallMade /\ dsCall'.raised # NoError) =>
              /\ dsCache = None /\ dsCache' = None
              /\ dsTable' = dsTable
              /\ dsHist'.published = dsHist.published
        /\ (CallMade /\ dsCall # None /\ dsCall.raised # NoError) =>
              IF DeriveError(dsCall'.args, dsTable) = NoError
              THEN /\ dsCall'.raised = NoError
                   /\ dsCache' = Some(DeriveConfig(dsCall'.args, dsTable))
                   /\ dsCall'.value = dsCache'
              ELSE /\ dsCall'.raised = DeriveError(dsCall'.args, dsTable)
                   /\ dsCall'.value = None
      ]_vars

\* every call but the last raised, and the last one derived the config from
\* its own args and published it
C15_Witness ==
    /\ dsHist # None /\ dsHist.raised >= 1
    /\ dsHist.calls = dsHist.raised + 1
    /\ dsHist.published = 1
    /\ dsCall.raised = NoError
    /\ dsCache = Some(DeriveConfig(dsCall.args, MixedPrecisionConfig))

\* ------------------------------------------------------------
\* Claims about deriving from a resolved tree, checked under SpecResolveDerive.

\* C14: for every training-mode tree that resolution returns,
\* get_deepspeed_config completes without raising: validation guarantees every
\* section and field it reads.
C14_DerivationCannotFail ==
    (/\ pc = "done" /\ op = "get_args" /\ mode = "training" /\ outcome = NoError
     /\ dsCall # None)
        => dsCall.raised = NoError

=============================================================================
